---- MODULE Spec2Model ----
(***************************************************************************)
(* pypls: a minimal LSP server (src/main.go).  The model covers the        *)
(* document store `files`, the tokenizer getWords, the sort key padStart,  *)
(* the cursor scan of textDocument/completion and the dispatcher Handle.   *)
(*                                                                         *)
(* Strings of the program whose characters matter (document text, words,   *)
(* sort keys, log text) are sequences of one-character strings; Go string  *)
(* concatenation is \o.  URIs and method names are opaque, so they are     *)
(* TLA+ strings.                                                           *)
(***************************************************************************)
EXTENDS Integers, Sequences, FiniteSets, Bags, TLC

VARIABLES files, alive, msg, out, scan, latest, editor, counts, sortTexts

vars == <<files, alive, msg, out, scan, latest, editor, counts, sortTexts>>

\* latest is a history variable: for every uri, the text of the most recent
\* didOpen/didChange that Handle stored for it.  No handler reads it.

\* what no handler touches: the text in the editor's buffer (single-document
\* specification) and the inputs and results of the sort-key specification
env == <<editor, counts, sortTexts>>

(***************************************************************************)
(* Bounds of the model.                                                    *)
(***************************************************************************)
MaxTextLen == 3      \* longest enumerated document text (single-document spec)
PastEnd == 2         \* how far past the end of a line / of the text a position may point
MaxCount == 12       \* occurrence counts 1..MaxCount (and their mirror images) for the sort key

(***************************************************************************)
(* Characters.  unicode.IsLetter / unicode.IsDigit restricted to ASCII.    *)
(***************************************************************************)
Letters ==
    {"a","b","c","d","e","f","g","h","i","j","k","l","m","n","o","p","q","r","s","t","u","v",
     "w","x","y","z","A","B","C","D","E","F","G","H","I","J","K","L","M","N","O","P","Q","R",
     "S","T","U","V","W","X","Y","Z"}

DigitChars == <<"0","1","2","3","4","5","6","7","8","9">>

Digits == {DigitChars[i] : i \in 1..10}

IsLetter(c) == c \in Letters

IsDigit(c) == c \in Digits

\* the test of src/main.go:67 and :217
IsWordChar(c) == c = "_" \/ IsLetter(c) \/ IsDigit(c)

(***************************************************************************)
(* Go maps: a function with a finite domain; reading a missing key gives   *)
(* the zero value.                                                         *)
(***************************************************************************)
EmptyMap == <<>>

MapGet(m, k) == IF k \in DOMAIN m THEN m[k] ELSE 0

MapSet(m, k, v) == (k :> v) @@ m

(***************************************************************************)
(* main(): the keyword table, every entry with weight 11.                  *)
(***************************************************************************)
defs == {
    <<"f","o","r">>, <<"r","a","n","g","e">>, <<"i","m","p","o","r","t">>, <<"i","n","t">>,
    <<"i","f">>, <<"e","l","i","f">>, <<"e","l","s","e">>, <<"i","n">>, <<"o","p","e","n">>,
    <<"s","o","r","t">>, <<"s","o","r","t","e","d">>, <<"d","e","f">>, <<"p","r","i","n","t">>,
    <<"c","o","n","t","i","n","u","e">>, <<"b","r","e","a","k">>, <<"r","e","t","u","r","n">>,
    <<"n","o","t">>, <<"d","e","l">>, <<"e","v","a","l">>, <<"T","r","u","e">>,
    <<"F","a","l","s","e">>, <<"s","t","r">>, <<"w","h","i","l","e">>, <<"a","n","d">>,
    <<"a","s">>, <<"i","s">>, <<"o","r">>, <<"t","r","y">>, <<"e","x","c","e","p","t">>,
    <<"f","i","n","a","l","l","y">>, <<"r","a","i","s","e">>, <<"a","s","s","e","r","t">>,
    <<"w","i","t","h">>, <<"l","a","m","b","d","a">>, <<"y","i","e","l","d">>,
    <<"a","s","y","n","c">>, <<"a","w","a","i","t">>, <<"c","l","a","s","s">>, <<"f","r","o","m">>,
    <<"g","l","o","b","a","l">>, <<"n","o","n","l","o","c","a","l">>, <<"p","a","s","s">>,
    <<"N","o","n","e">>, <<"a","b","s">>, <<"a","l","l">>, <<"a","n","y">>,
    <<"a","s","c","i","i">>, <<"b","i","n">>, <<"b","o","o","l">>,
    <<"b","r","e","a","k","p","o","i","n","t">>, <<"b","y","t","e","a","r","r","a","y">>,
    <<"b","y","t","e","s">>, <<"c","a","l","l","a","b","l","e">>, <<"c","h","r">>,
    <<"c","l","a","s","s","m","e","t","h","o","d">>, <<"c","o","m","p","i","l","e">>,
    <<"c","o","m","p","l","e","x">>, <<"d","e","l","a","t","t","r">>, <<"d","i","c","t">>,
    <<"d","i","r">>, <<"d","i","v","m","o","d">>, <<"e","n","u","m","e","r","a","t","e">>,
    <<"e","x","e","c">>, <<"f","i","l","t","e","r">>, <<"f","l","o","a","t">>,
    <<"f","o","r","m","a","t">>, <<"f","r","o","z","e","n","s","e","t">>,
    <<"g","e","t","a","t","t","r">>, <<"g","l","o","b","a","l","s">>,
    <<"h","a","s","a","t","t","r">>, <<"h","a","s","h">>, <<"h","e","l","p">>, <<"h","e","x">>,
    <<"i","d">>, <<"i","n","p","u","t">>, <<"i","s","i","n","s","t","a","n","c","e">>,
    <<"i","s","s","u","b","c","l","a","s","s">>, <<"i","t","e","r">>, <<"l","e","n">>,
    <<"l","i","s","t">>, <<"l","o","c","a","l","s">>, <<"m","a","p">>, <<"m","a","x">>,
    <<"m","e","m","o","r","y","v","i","e","w">>, <<"m","i","n">>, <<"n","e","x","t">>,
    <<"o","b","j","e","c","t">>, <<"o","c","t">>, <<"p","o","w">>,
    <<"p","r","o","p","e","r","t","y">>, <<"r","e","p","r">>, <<"r","e","v","e","r","s","e","d">>,
    <<"r","o","u","n","d">>, <<"s","e","t">>, <<"s","e","t","a","t","t","r">>,
    <<"s","l","i","c","e">>, <<"s","t","a","t","i","c","m","e","t","h","o","d">>, <<"s","u","m">>,
    <<"s","u","p","e","r">>, <<"t","u","p","l","e">>, <<"t","y","p","e">>, <<"v","a","r","s">>,
    <<"z","i","p">>, <<"_","_","i","m","p","o","r","t","_","_">> }

defaultCompletions == [d \in defs |-> 11]

(***************************************************************************)
(* getWords (src/main.go:62-82)                                            *)
(***************************************************************************)
\* variant: every word is recorded with count 1, occurrences are not added up
getWordsFlushOnce(words, currentword) ==
    IF currentword # <<>> /\ MapGet(defaultCompletions, currentword) = 0
    THEN MapSet(words, currentword, 1)
    ELSE words

\* lines 70-73: a non-word character ends the current word
getWordsFlush(words, currentword) ==
    IF currentword # <<>> /\ MapGet(defaultCompletions, currentword) = 0
    THEN MapSet(words, currentword, MapGet(words, currentword) + 1)
    ELSE words

\* lines 77-79: the word still in the buffer at end of input
getWordsTail(words, currentword) ==
    IF currentword # <<>>
    THEN MapSet(words, currentword, MapGet(words, currentword) + 1)
    ELSE words

RECURSIVE getWordsLoop(_, _, _, _)
getWordsLoop(text, i, words, currentword) ==
    IF i > Len(text) THEN getWordsTail(words, currentword)
    ELSE IF IsWordChar(text[i])
         THEN getWordsLoop(text, i + 1, words, Append(currentword, text[i]))
         ELSE getWordsLoop(text, i + 1, getWordsFlush(words, currentword), <<>>)

getWords(text) == getWordsLoop(text, 1, EmptyMap, <<>>)

(***************************************************************************)
(* strconv.FormatInt(n, 10) and padStart (src/main.go:84-89)               *)
(***************************************************************************)
RECURSIVE FormatNat(_)
FormatNat(n) ==
    IF n < 10 THEN <<DigitChars[n + 1]>>
    ELSE Append(FormatNat(n \div 10), DigitChars[(n % 10) + 1])

FormatInt(n) == IF n < 0 THEN <<"-">> \o FormatNat(0 - n) ELSE FormatNat(n)

\* variant: the pad is appended instead of prepended
RECURSIVE padEnd(_, _, _)
padEnd(s, pad, length) ==
    IF Len(s) < length THEN padEnd(s \o pad, pad, length) ELSE s

RECURSIVE padStart(_, _, _)
padStart(s, pad, length) ==
    IF Len(s) < length THEN padStart(pad \o s, pad, length) ELSE s

padLen == 6

\* the sortText expression of lines 250 and 254
sortText(value) == padStart(FormatInt(1000000 - value), <<"0">>, padLen)

\* the CompletionItem literal of lines 250 and 254
CompletionItem(key, value) ==
    [label |-> key, kind |-> 3, insertText |-> key, insertTextFormat |-> 1,
     sortText |-> sortText(value)]

(***************************************************************************)
(* The cursor scan of textDocument/completion (src/main.go:196-235).       *)
(* The scan state holds the handler's locals.                              *)
(***************************************************************************)
scanInit == [curline |-> 0, line_pos |-> 0, curword |-> <<>>, tocomplete |-> <<>>,
             leadup |-> <<>>]

\* lines 206-212: a newline (line_pos already incremented)
scanNewline(s, Line, Character) ==
    [s EXCEPT !.tocomplete = IF s.curline = Line /\ s.line_pos = Character
                             THEN s.curword ELSE @,
              !.curline = @ + 1,
              !.line_pos = 0]

\* variant: a dot starts a new segment but the current word is not cleared
scanCharKeepWord(s, c) ==
    IF IsWordChar(c) THEN [s EXCEPT !.curword = Append(@, c)]
    ELSE IF c = "." THEN [s EXCEPT !.leadup = Append(@, s.curword)]
    ELSE [s EXCEPT !.leadup = <<>>, !.curword = <<>>]

\* lines 217-225: a character of the requested line
scanChar(s, c) ==
    IF IsWordChar(c) THEN [s EXCEPT !.curword = Append(@, c)]
    ELSE IF c = "." THEN [s EXCEPT !.leadup = Append(@, s.curword), !.curword = <<>>]
    ELSE [s EXCEPT !.leadup = <<>>, !.curword = <<>>]

\* lines 227-229
scanCapture(s, Character) ==
    IF s.line_pos = Character THEN [s EXCEPT !.tocomplete = s.curword] ELSE s

RECURSIVE scanLoop(_, _, _, _, _)
scanLoop(filecontent, i, s, Line, Character) ==
    IF i > Len(filecontent) THEN s
    ELSE LET c == filecontent[i]
             s1 == [s EXCEPT !.line_pos = @ + 1]
         IN  IF c = "\n"
             THEN LET s2 == scanNewline(s1, Line, Character)
                  IN  IF s2.curline > Line THEN s2
                      ELSE scanLoop(filecontent, i + 1, s2, Line, Character)
             ELSE IF s1.curline = Line
                  THEN scanLoop(filecontent, i + 1, scanCapture(scanChar(s1, c), Character),
                                Line, Character)
                  ELSE scanLoop(filecontent, i + 1, s1, Line, Character)

\* lines 233-235: the capture after the loop
scanEnd(s, Line, Character) ==
    IF s.line_pos + 1 = Character /\ s.curline = Line
    THEN [s EXCEPT !.tocomplete = s.curword] ELSE s

cursorScan(filecontent, Line, Character) ==
    scanEnd(scanLoop(filecontent, 1, scanInit, Line, Character), Line, Character)

\* lines 237-240: leadups
RECURSIVE leadupString(_)
leadupString(leadup) ==
    IF leadup = <<>> THEN <<>>
    ELSE Head(leadup) \o <<".">> \o leadupString(Tail(leadup))

(***************************************************************************)
(* Item construction (src/main.go:245-255).  Go iterates a map in an       *)
(* unspecified order, so the item list is kept up to permutation: a bag.   *)
(***************************************************************************)
\* variant: the document loop does not skip the word being completed
docItemsNoSkip(words, tocomplete) ==
    SetToBag({CompletionItem(key, words[key]) : key \in DOMAIN words})

\* lines 248-251
docItems(words, tocomplete) ==
    SetToBag({CompletionItem(key, words[key]) : key \in (DOMAIN words) \ {tocomplete}})

\* the item line 254 builds for a key of the keyword table
keywordItem == [key \in DOMAIN defaultCompletions |-> CompletionItem(key, defaultCompletions[key])]

\* variant: only the keywords that start with the word being completed are listed
keywordItemsPrefix(tocomplete) ==
    SetToBag({keywordItem[key] : key \in
                 {k \in (DOMAIN defaultCompletions) \ {tocomplete} :
                     Len(k) >= Len(tocomplete) /\ SubSeq(k, 1, Len(tocomplete)) = tocomplete}})

\* lines 252-255
keywordItems(tocomplete) ==
    SetToBag({keywordItem[key] : key \in (DOMAIN defaultCompletions) \ {tocomplete}})

completionItems(words, tocomplete) == docItems(words, tocomplete) (+) keywordItems(tocomplete)

(***************************************************************************)
(* JSON payloads (req.Params) and encoding/json decoding into the          *)
(* handler's structs.  A JSON value carries its JSON type in field j.      *)
(* JAbsent is a member that is missing or null: json.Unmarshal leaves the  *)
(* target field at its zero value in both cases.  NoParams is a request    *)
(* without params (req.Params is a nil pointer).                           *)
(***************************************************************************)
NoParams == [j |-> "none"]

JAbsent == [j |-> "absent"]

JStr(x) == [j |-> "string", str |-> x]

JNum(n) == [j |-> "number", num |-> n]

JArr(q) == [j |-> "array", arr |-> q]

JObj(r) == [j |-> "object", obj |-> r]

Field(x, name) == IF name \in DOMAIN x.obj THEN x.obj[name] ELSE JAbsent

\* a Go struct accepts a JSON object (or null)
StructOK(x) == x.j \in {"object", "absent"}

\* a Go string accepts a JSON string (or null)
StringOK(x) == x.j \in {"string", "absent"}

\* a Go int accepts a JSON number (or null)
IntOK(x) == x.j \in {"number", "absent"}

StringOf(x) == IF x.j = "string" THEN x.str ELSE ""

TextOf(x) == IF x.j = "string" THEN x.str ELSE <<>>

IntOf(x) == IF x.j = "number" THEN x.num ELSE 0

\* variant: a payload without textDocument.uri is a decode error
getURIStrict(req) ==
    LET p  == req.params
        td == IF p.j = "object" THEN Field(p, "textDocument") ELSE JAbsent
        u  == IF td.j = "object" THEN Field(td, "uri") ELSE JAbsent
    IN  IF p.j = "object" /\ td.j = "object" /\ u.j = "string"
        THEN [uri |-> u.str, err |-> FALSE]
        ELSE [uri |-> "", err |-> TRUE]

\* getURI (src/main.go:46-60), for req.Params # nil
getURI(req) ==
    LET p  == req.params
        td == IF p.j = "object" THEN Field(p, "textDocument") ELSE JAbsent
        u  == IF td.j = "object" THEN Field(td, "uri") ELSE JAbsent
    IN  IF StructOK(p) /\ StructOK(td) /\ StringOK(u)
        THEN [uri |-> StringOf(u), err |-> FALSE]
        ELSE [uri |-> "", err |-> TRUE]

\* json.Unmarshal into struct{ TextDocument struct{ Text string } } (lines 147-151)
unmarshalOpen(p) ==
    LET td == IF p.j = "object" THEN Field(p, "textDocument") ELSE JAbsent
        t  == IF td.j = "object" THEN Field(td, "text") ELSE JAbsent
    IN  IF StructOK(p) /\ StructOK(td) /\ StringOK(t)
        THEN [Text |-> TextOf(t), err |-> FALSE]
        ELSE [Text |-> <<>>, err |-> TRUE]

\* one element of contentChanges decoded into struct{ Text string }
changeEntryOK(e) == StructOK(e) /\ (e.j = "object" => StringOK(Field(e, "text")))

changeEntryText(e) == IF e.j = "object" THEN TextOf(Field(e, "text")) ELSE <<>>

\* json.Unmarshal into struct{ ContentChanges []struct{ Text string } } (lines 125-129)
unmarshalChange(p) ==
    LET cc == IF p.j = "object" THEN Field(p, "contentChanges") ELSE JAbsent
    IN  IF StructOK(p) /\ cc.j \in {"array", "absent"}
           /\ (cc.j = "array" => \A i \in 1..Len(cc.arr) : changeEntryOK(cc.arr[i]))
        THEN [ContentChanges |-> IF cc.j = "array"
                                 THEN [i \in 1..Len(cc.arr) |-> changeEntryText(cc.arr[i])]
                                 ELSE <<>>,
              err |-> FALSE]
        ELSE [ContentChanges |-> <<>>, err |-> TRUE]

\* json.Unmarshal into struct{ Position struct{ Line, Character int } } (lines 182-188)
unmarshalPosition(p) ==
    LET pos == IF p.j = "object" THEN Field(p, "position") ELSE JAbsent
        l   == IF pos.j = "object" THEN Field(pos, "line") ELSE JAbsent
        c   == IF pos.j = "object" THEN Field(pos, "character") ELSE JAbsent
    IN  IF StructOK(p) /\ StructOK(pos) /\ IntOK(l) /\ IntOK(c)
        THEN [Line |-> IntOf(l), Character |-> IntOf(c), err |-> FALSE]
        ELSE [Line |-> 0, Character |-> 0, err |-> TRUE]

(***************************************************************************)
(* What the handler sends on the connection, and how it can end the        *)
(* process.                                                                *)
(***************************************************************************)
CodeParseError == -32700

CodeMethodNotFound == -32601

\* log (src/main.go:37-42)
log(message) ==
    [type |-> "notify", method |-> "window/logMessage", code |-> 4, message |-> message]

Reply(result) == [type |-> "reply", result |-> result]

ReplyWithError(code, message) == [type |-> "error", code |-> code, message |-> message]

\* a run-time panic in the handler (nil dereference, index out of range): the process dies
Panic == [type |-> "panic"]

\* os.Exit(0)
OsExit == [type |-> "exit", code |-> 0]

\* err.Error() of an encoding/json error; its wording is not modelled
jsonErrorText == "json: cannot unmarshal"

(***************************************************************************)
(* The document store.                                                     *)
(***************************************************************************)
\* variant: a change also leaves a copy of the record under the empty uri
storeChangeAlias(f, uri, text) ==
    MapSet(MapSet(f, uri, [uri |-> uri, content |-> text, words |-> getWords(text)]),
           "", [uri |-> "", content |-> text, words |-> getWords(text)])

\* variant: opening a document replaces the whole store
storeOpenOnly(f, uri, text) ==
    uri :> [uri |-> uri, content |-> text, words |-> getWords(text)]

\* variant: opening a uri that already has a record keeps the words of its previous
\* text
storeOpenStale(f, uri, text) ==
    MapSet(f, uri, [uri |-> uri, content |-> text,
                    words |-> IF uri \in DOMAIN f THEN f[uri].words ELSE getWords(text)])

\* the OpenFile literal and store write of line 159
storeOpen(f, uri, text) ==
    MapSet(f, uri, [uri |-> uri, content |-> text, words |-> getWords(text)])

\* variant: a change replaces the whole store
storeChangeOnly(f, uri, text) ==
    uri :> [uri |-> uri, content |-> text, words |-> getWords(text)]

\* variant: a change replaces the text but keeps the words of the previous text
storeChangeStale(f, uri, text) ==
    MapSet(f, uri, [uri |-> uri, content |-> text,
                    words |-> IF uri \in DOMAIN f THEN f[uri].words ELSE getWords(text)])

\* the OpenFile literal and store write of line 137
storeChange(f, uri, text) ==
    MapSet(f, uri, [uri |-> uri, content |-> text, words |-> getWords(text)])

(***************************************************************************)
(* handler.Handle (src/main.go:91-272), one action per case of the switch. *)
(* msg is the request being handled, out what the handler sent for it,     *)
(* scan the locals of the cursor scan (scanInit when no scan ran).         *)
(***************************************************************************)
Request(method, params) == [method |-> method, params |-> params]

\* a handler that touches neither the store nor the process
Answer(req, events) ==
    /\ msg' = req
    /\ out' = events
    /\ scan' = scanInit
    /\ UNCHANGED <<files, alive, latest, env>>

\* a handler that kills the process (panic or os.Exit)
Die(req, event) ==
    /\ msg' = req
    /\ out' = <<event>>
    /\ scan' = scanInit
    /\ alive' = FALSE
    /\ UNCHANGED <<files, latest, env>>

capabilities ==
    [capabilities |-> [completionProvider |-> [triggerCharacters |-> <<".", ":">>]]]

null == [isNull |-> TRUE]

\* lines 93-103
Initialize(P) ==
    /\ alive
    /\ \E p \in P : Answer(Request("initialize", p), <<Reply(capabilities)>>)

\* lines 105-106
Initialized(P) ==
    /\ alive
    /\ \E p \in P : Answer(Request("initialized", p),
                           <<log(<<"Language server initialized successfully">>)>>)

\* lines 108-109
Shutdown(P) ==
    /\ alive
    /\ \E p \in P : Answer(Request("shutdown", p), <<Reply(null)>>)

\* lines 111-112
Exit(P) ==
    /\ alive
    /\ \E p \in P : Die(Request("exit", p), OsExit)

\* lines 114-115
DidChangeConfiguration(P) ==
    /\ alive
    /\ \E p \in P : Answer(Request("workspace/didChangeConfiguration", p), <<log(<<"Ack">>)>>)

\* lines 117-137
DidChange(P) ==
    /\ alive
    /\ \E p \in P :
          LET req == Request("textDocument/didChange", p)
              u   == getURI(req)
              c   == unmarshalChange(p)
          IN  IF p.j = "none" THEN Die(req, Panic)
              ELSE IF u.err THEN Answer(req, <<log(<<"Failed to unmarshal payload">>)>>)
              ELSE IF c.err
                   THEN Answer(req, <<ReplyWithError(CodeParseError,
                                        <<"invalid change params: ", jsonErrorText>>)>>)
              ELSE IF Len(c.ContentChanges) = 0 THEN Die(req, Panic)
              ELSE /\ files' = storeChange(files, u.uri, c.ContentChanges[1])
                   /\ latest' = MapSet(latest, u.uri, c.ContentChanges[1])
                   /\ msg' = req
                   /\ out' = <<>>
                   /\ scan' = scanInit
                   /\ UNCHANGED <<alive, env>>

\* lines 139-159
DidOpen(P) ==
    /\ alive
    /\ \E p \in P :
          LET req == Request("textDocument/didOpen", p)
              u   == getURI(req)
              o   == unmarshalOpen(p)
          IN  IF p.j = "none" THEN Die(req, Panic)
              ELSE IF u.err THEN Answer(req, <<log(<<"Failed to unmarshal payload">>)>>)
              ELSE IF o.err
                   THEN Answer(req, <<ReplyWithError(CodeParseError,
                                        <<"invalid open params: ", jsonErrorText>>)>>)
              ELSE /\ files' = storeOpen(files, u.uri, o.Text)
                   /\ latest' = MapSet(latest, u.uri, o.Text)
                   /\ msg' = req
                   /\ out' = <<>>
                   /\ scan' = scanInit
                   /\ UNCHANGED <<alive, env>>

\* line 161
DidSave(P) ==
    /\ alive
    /\ \E p \in P : Answer(Request("textDocument/didSave", p), <<>>)

\* line 163
Hover(P) ==
    /\ alive
    /\ \E p \in P : Answer(Request("textDocument/hover", p), <<>>)

\* lines 257-262
completionList(items) == [isIncomplete |-> FALSE, items |-> items]

\* variant: a completion for a document that is not open is answered with an
\* empty list after the log message
CompletionNotOpenReplies(P) ==
    /\ alive
    /\ \E p \in P :
          LET req == Request("textDocument/completion", p)
              u   == getURI(req)
              pos == unmarshalPosition(p)
          IN  IF p.j = "none" THEN Die(req, Panic)
              ELSE IF u.err THEN Answer(req, <<log(<<"Failed to unmarshal payload">>)>>)
              ELSE IF u.uri \notin DOMAIN files
                   THEN Answer(req, <<log(<<"FILE NOT OPEN">>),
                                      Reply(completionList(EmptyBag))>>)
              ELSE IF pos.err
                   THEN Answer(req, <<ReplyWithError(CodeParseError,
                                        <<"invalid completion params: ", jsonErrorText>>)>>)
              ELSE LET file == files[u.uri]
                       s    == cursorScan(file.content, pos.Line, pos.Character)
                   IN  /\ scan' = s
                       /\ msg' = req
                       /\ out' = << log(leadupString(s.leadup) \o s.tocomplete),
                                    Reply(completionList(
                                            completionItems(file.words, s.tocomplete))) >>
                       /\ UNCHANGED <<files, alive, latest, env>>

\* lines 165-264
Completion(P) ==
    /\ alive
    /\ \E p \in P :
          LET req == Request("textDocument/completion", p)
              u   == getURI(req)
              pos == unmarshalPosition(p)
          IN  IF p.j = "none" THEN Die(req, Panic)
              ELSE IF u.err THEN Answer(req, <<log(<<"Failed to unmarshal payload">>)>>)
              ELSE IF u.uri \notin DOMAIN files THEN Answer(req, <<log(<<"FILE NOT OPEN">>)>>)
              ELSE IF pos.err
                   THEN Answer(req, <<ReplyWithError(CodeParseError,
                                        <<"invalid completion params: ", jsonErrorText>>)>>)
              ELSE LET file == files[u.uri]
                       s    == cursorScan(file.content, pos.Line, pos.Character)
                   IN  /\ scan' = s
                       /\ msg' = req
                       /\ out' = << log(leadupString(s.leadup) \o s.tocomplete),
                                    Reply(completionList(
                                            completionItems(file.words, s.tocomplete))) >>
                       /\ UNCHANGED <<files, alive, latest, env>>

\* variant: the error message does not name the method
DefaultAnonymous(M, P) ==
    /\ alive
    /\ \E m \in M, p \in P :
          Answer(Request(m, p), <<ReplyWithError(CodeMethodNotFound, <<"method not found">>)>>)

\* lines 266-271
Default(M, P) ==
    /\ alive
    /\ \E m \in M, p \in P :
          Answer(Request(m, p),
                 <<ReplyWithError(CodeMethodNotFound, <<"method not found < ", m>>)>>)

(***************************************************************************)
(* Inputs.                                                                 *)
(***************************************************************************)
BoundedSeq(S, n) == UNION {[1..k -> S] : k \in 0..n}

SeqMax(S) == CHOOSE n \in {Len(t) : t \in S} : \A t \in S : Len(t) <= n

NumNewlines(text) == Cardinality({i \in 1..Len(text) : text[i] = "\n"})

\* a JSON value of a type none of the handler's fields accepts in its place
WrongType == JNum(7)

\* a params object with none of the members the handler reads
OtherObject == JObj([processId |-> JNum(1)])

\* --- the server specification: several URIs, every method, every payload shape
Uris == {"u1", "u2"}

MainTexts == { <<>>, <<"i">>, <<"i","f">>, <<"f"," ","i">> }

UriField == {JAbsent, WrongType} \cup {JStr(u) : u \in Uris}

TextField == {JAbsent, WrongType} \cup {JStr(t) : t \in MainTexts}

ChangesField ==
    {JAbsent, WrongType, JArr(<<>>), JArr(<<WrongType>>), JArr(<<JObj([text |-> WrongType])>>),
     JArr(<<JObj([text |-> JStr(<<"i">>)]), JObj([text |-> JStr(<<"i","f">>)])>>)}
    \cup {JArr(<<JObj([text |-> JStr(t)])>>) : t \in MainTexts}

MainLines == 0..1

MainChars == 0..(SeqMax(MainTexts) + 1)

PositionField ==
    {JAbsent, WrongType, JObj([line |-> JStr("0"), character |-> JNum(0)])}
    \cup {JObj([line |-> JNum(l), character |-> JNum(c)]) : l \in MainLines, c \in MainChars}

PlainPayloads == {NoParams, OtherObject}

OpenPayloads ==
    {NoParams, JArr(<<>>), JObj([textDocument |-> WrongType]), JObj([textDocument |-> JAbsent])}
    \cup {JObj([textDocument |-> JObj([uri |-> u, text |-> t])]) : u \in UriField, t \in TextField}

ChangePayloads ==
    {NoParams, JArr(<<>>)}
    \cup {JObj([textDocument |-> JObj([uri |-> u]), contentChanges |-> cc]) :
             u \in UriField, cc \in ChangesField}

CompletionPayloads ==
    {NoParams, JArr(<<>>)}
    \cup {JObj([textDocument |-> JObj([uri |-> u]), position |-> pos]) :
             u \in UriField, pos \in PositionField}

UnknownMethods == {"foo/bar", "textDocument/didClose"}

\* --- the single-document specification: every short text, every position
DocAlphabet == {"i", "f", ".", " ", "\n"}

CatCatDog == <<"c","a","t"," ","c","a","t"," ","d","o","g">>

FooBarBaz == <<"f","o","o",".","b","a","r",".","b","a","z">>

XFooB == <<"x"," ","="," ","1","\n","f","o","o",".","b">>

\* a dotted path with the cursor inside it, and one continued on a second line
DottedPath == <<"i",".","f",".","i","f">>

TwoLines == <<"i",".","f"," ","\n","f",".","i","f">>

ExampleTexts == {CatCatDog, FooBarBaz, XFooB, DottedPath, TwoLines}

DocTexts == BoundedSeq(DocAlphabet, MaxTextLen) \cup ExampleTexts

DocUri == "u1"

\* the editor sends the full text of its buffer
DocOpenPayloads ==
    {JObj([textDocument |-> JObj([uri |-> JStr(DocUri), text |-> JStr(editor)])])}

DocChangePayloads ==
    {JObj([textDocument |-> JObj([uri |-> JStr(DocUri)]),
           contentChanges |-> JArr(<<JObj([text |-> JStr(editor)])>>)])}

DocContent == IF DocUri \in DOMAIN files THEN files[DocUri].content ELSE <<>>

DocCompletionPayloads ==
    {JObj([textDocument |-> JObj([uri |-> JStr(DocUri)]),
           position |-> JObj([line |-> JNum(l), character |-> JNum(c)])]) :
        l \in 0..(NumNewlines(DocContent) + 1), c \in 0..(Len(DocContent) + PastEnd)}

\* --- the sort-key specification: pairs of occurrence counts
Pow10(k) == IF k = 1 THEN 10 ELSE IF k = 2 THEN 100 ELSE IF k = 3 THEN 1000
            ELSE IF k = 4 THEN 10000 ELSE 100000

CountSamples ==
    (1..MaxCount) \cup {1000000 - c : c \in 1..MaxCount}
    \cup {Pow10(k) + d : k \in 1..5, d \in {-1, 0, 1}}

(***************************************************************************)
(* Specifications.                                                         *)
(***************************************************************************)
NoRequest == Request("", NoParams)

Init ==
    /\ files = EmptyMap
    /\ alive = TRUE
    /\ msg = NoRequest
    /\ out = <<>>
    /\ scan = scanInit
    /\ latest = EmptyMap
    /\ editor = <<>>
    /\ counts = <<1, 1>>
    /\ sortTexts = <<>>

Next ==
    \/ Initialize(PlainPayloads)
    \/ Initialized(PlainPayloads)
    \/ Shutdown(PlainPayloads)
    \/ Exit(PlainPayloads)
    \/ DidChangeConfiguration(PlainPayloads)
    \/ DidChange(ChangePayloads)
    \/ DidOpen(OpenPayloads)
    \/ DidSave(PlainPayloads)
    \/ Hover(PlainPayloads)
    \/ Completion(CompletionPayloads)
    \/ Default(UnknownMethods, PlainPayloads)

Spec == Init /\ [][Next]_vars

NextDoc ==
    \/ DidOpen(DocOpenPayloads)
    \/ DidChange(DocChangePayloads)
    \/ Completion(DocCompletionPayloads)

InitDoc ==
    /\ files = EmptyMap
    /\ alive = TRUE
    /\ msg = NoRequest
    /\ out = <<>>
    /\ scan = scanInit
    /\ latest = EmptyMap
    /\ editor \in DocTexts
    /\ counts = <<1, 1>>
    /\ sortTexts = <<>>

SpecDoc == InitDoc /\ [][NextDoc]_vars

\* the sort keys of two items, as lines 250 and 254 compute them
SortKeys ==
    /\ sortTexts = <<>>
    /\ sortTexts' = <<sortText(counts[1]), sortText(counts[2])>>
    /\ UNCHANGED <<files, alive, msg, out, scan, latest, editor, counts>>

InitSort ==
    /\ files = EmptyMap
    /\ alive = TRUE
    /\ msg = NoRequest
    /\ out = <<>>
    /\ scan = scanInit
    /\ latest = EmptyMap
    /\ editor = <<>>
    /\ counts \in CountSamples \X CountSamples
    /\ sortTexts = <<>>

NextSort == SortKeys

SpecSort == InitSort /\ [][NextSort]_vars

(***************************************************************************)
(* Vocabulary of the properties.                                           *)
(***************************************************************************)
IsOpen(m) == m.method = "textDocument/didOpen"

IsChange(m) == m.method = "textDocument/didChange"

IsCompletion(m) == m.method = "textDocument/completion"

HasParams(m) == m.params.j # "none"

\* the first decode step (getURI) ran and failed
URIDecodeFailed(m) == HasParams(m) /\ getURI(m).err

\* the method-specific decode step ran and failed (f is the store the message met)
PayloadDecodeFailed(m, f) ==
    /\ HasParams(m)
    /\ ~getURI(m).err
    /\ \/ IsOpen(m) /\ unmarshalOpen(m.params).err
       \/ IsChange(m) /\ unmarshalChange(m.params).err
       \/ IsCompletion(m) /\ getURI(m).uri \in DOMAIN f /\ unmarshalPosition(m.params).err

\* a didOpen / didChange whose payload decoded and whose text was stored
Stored(m) ==
    /\ HasParams(m)
    /\ ~getURI(m).err
    /\ \/ IsOpen(m) /\ ~unmarshalOpen(m.params).err
       \/ IsChange(m) /\ ~unmarshalChange(m.params).err
                      /\ Len(unmarshalChange(m.params).ContentChanges) > 0

SentText(m) ==
    IF IsOpen(m) THEN unmarshalOpen(m.params).Text
    ELSE unmarshalChange(m.params).ContentChanges[1]

\* the last message was a completion request and it was answered with a list
Answered == IsCompletion(msg) /\ Len(out) = 2 /\ out[2].type = "reply"

ReplyItems == out[2].result.items

ReqFile == files[getURI(msg).uri]

ReqLine == unmarshalPosition(msg.params).Line

ReqChar == unmarshalPosition(msg.params).Character

At(text, l, c) == Answered /\ ReqFile.content = text /\ ReqLine = l /\ ReqChar = c

RECURSIVE Split(_, _)
Split(text, sep) ==
    IF \A i \in 1..Len(text) : text[i] # sep THEN <<text>>
    ELSE LET i == CHOOSE n \in 1..Len(text) :
                     text[n] = sep /\ \A m \in 1..(n - 1) : text[m] # sep
         IN  <<SubSeq(text, 1, i - 1)>> \o Split(SubSeq(text, i + 1, Len(text)), sep)

LinesOf(text) == Split(text, "\n")

\* the request points into an existing line, at or before its end
OnLine ==
    /\ Answered
    /\ ReqLine + 1 \in 1..Len(LinesOf(ReqFile.content))
    /\ ReqChar \in 0..Len(LinesOf(ReqFile.content)[ReqLine + 1])

CursorLine == LinesOf(ReqFile.content)[ReqLine + 1]

\* longest run of identifier characters ending exactly at offset k
RECURSIVE IdentRunEndingAt(_, _)
IdentRunEndingAt(line, k) ==
    IF k = 0 \/ ~IsWordChar(line[k]) THEN <<>>
    ELSE Append(IdentRunEndingAt(line, k - 1), line[k])

\* the dot-separated segments before the current token of a line prefix
PathStart(prefix) ==
    LET breaks == {i \in 1..Len(prefix) : ~IsWordChar(prefix[i]) /\ prefix[i] # "."}
    IN  IF breaks = {} THEN 1 ELSE 1 + CHOOSE i \in breaks : \A n \in breaks : n <= i

LeadUpOf(prefix) ==
    LET segs == Split(SubSeq(prefix, PathStart(prefix), Len(prefix)), ".")
    IN  SubSeq(segs, 1, Len(segs) - 1)

CharCode(c) == IF c = "-" THEN 45 ELSE 47 + CHOOSE i \in 1..10 : DigitChars[i] = c

\* lexicographic order of strings of digits and signs
StrLess(a, b) ==
    \E i \in 1..(Len(b)) :
        /\ \A n \in 1..(i - 1) : n <= Len(a) /\ a[n] = b[n]
        /\ \/ i = Len(a) + 1
           \/ i <= Len(a) /\ CharCode(a[i]) < CharCode(b[i])

RECURSIVE Pow(_, _)
Pow(b, e) == IF e = 0 THEN 1 ELSE b * Pow(b, e - 1)

\* the six-digit zero-padded decimal numeral of n
Decimal6(n) == [i \in 1..6 |-> DigitChars[((n \div Pow(10, 6 - i)) % 10) + 1]]

Labelled(w) == {it \in BagToSet(ReplyItems) : it.label = w}

Cat == <<"c","a","t">>

Dog == <<"d","o","g">>

Baz == <<"b","a","z">>

(***************************************************************************)
(* Properties.                                                             *)
(***************************************************************************)
\* C1: every record of the store sits under its own uri and its words are the
\* tokenizer's result for its content; right after a stored didOpen/didChange
\* for u with text t, the record of u holds t and getWords(t).
C1_StoreConsistent ==
    /\ \A u \in DOMAIN files :
          files[u].uri = u /\ files[u].words = getWords(files[u].content)
    /\ (alive /\ Stored(msg)) =>
          /\ getURI(msg).uri \in DOMAIN files
          /\ files[getURI(msg).uri].content = SentText(msg)
          /\ files[getURI(msg).uri].words = getWords(SentText(msg))

C1_Witness ==
    /\ IsChange(msg) /\ Stored(msg)
    /\ files[getURI(msg).uri].words # EmptyMap
    /\ Cardinality(DOMAIN files) >= 2

\* C2: no record's words contain a keyword of defaultCompletions or the empty
\* string as a key (stated as claimed: including the last word of the text).
C2_NoKeywordKey ==
    \A u \in DOMAIN files :
        \A w \in DOMAIN files[u].words : w \notin DOMAIN defaultCompletions /\ w # <<>>

\* C3: an answered completion lists no item whose label is the partial token,
\* neither among the document's words nor among the keywords.
C3_PartialExcluded ==
    Answered => \A it \in BagToSet(ReplyItems) : it.label # scan.tocomplete

C3_Witness ==
    /\ Answered
    /\ scan.tocomplete \in DOMAIN ReqFile.words
    /\ scan.tocomplete \in DOMAIN defaultCompletions

\* C4: for counts c1 > c2 in 1..999999 both sort keys are six digits, each is
\* the zero-padded decimal of 1000000 - count, and the key of c1 is
\* lexicographically smaller than the key of c2.
C4_SortKeyOrder ==
    (sortTexts # <<>> /\ counts[1] > counts[2]
        /\ counts[1] \in 1..999999 /\ counts[2] \in 1..999999) =>
       /\ \A n \in 1..2 :
             /\ Len(sortTexts[n]) = 6
             /\ \A i \in 1..Len(sortTexts[n]) : sortTexts[n][i] \in Digits
             /\ sortTexts[n] = Decimal6(1000000 - counts[n])
       /\ StrLess(sortTexts[1], sortTexts[2])

C4_Witness == sortTexts # <<>> /\ counts[1] = 999999 /\ counts[2] = 9

\* C5: at a position on an existing line, at or before its end, the partial is
\* the longest identifier run ending at the offset, taken from that line only.
C5_Partial ==
    /\ OnLine => scan.tocomplete = IdentRunEndingAt(CursorLine, ReqChar)
    /\ At(FooBarBaz, 0, 11) => scan.tocomplete = Baz
    /\ At(XFooB, 1, 5) => scan.tocomplete = <<"b">>

C5_Witness ==
    /\ OnLine /\ ReqLine = 1
    /\ ReqChar < Len(CursorLine)
    /\ Len(scan.tocomplete) = 2
    /\ LinesOf(ReqFile.content)[1] # <<>>

\* C6: the leadUp of the scan is the sequence of dot-separated segments before
\* the cursor's token, fixed by the characters of the line before the offset
\* (stated as claimed).
C6_LeadUpBeforeCursor ==
    OnLine => scan.leadup = LeadUpOf(SubSeq(CursorLine, 1, ReqChar))

\* C7 as claimed: "cat cat dog" at line 0, character 11 resolves the empty
\* partial and the reply lists cat (999998) and dog (999999), keywords first.
C7_Original ==
    At(CatCatDog, 0, 11) =>
       /\ scan.tocomplete = <<>>
       /\ \E it \in Labelled(Cat) : it.sortText = <<"9","9","9","9","9","8">>
       /\ \E it \in Labelled(Dog) : it.sortText = <<"9","9","9","9","9","9">>

\* C7 amended: at line 0, character 11 the partial is dog, so the reply lists
\* cat (999998) and no dog; where the partial is empty (line 0, character 4)
\* it lists cat (999998) and dog (999999); in both every keyword has key
\* 999989, which sorts before cat, and cat sorts before dog.
C7_Scenario ==
    /\ At(CatCatDog, 0, 11) =>
          /\ scan.tocomplete = Dog
          /\ Labelled(Dog) = {}
    /\ At(CatCatDog, 0, 4) =>
          /\ scan.tocomplete = <<>>
          /\ \E d \in Labelled(Dog) :
                /\ d.sortText = <<"9","9","9","9","9","9">>
                /\ \A c \in Labelled(Cat) : StrLess(c.sortText, d.sortText)
    /\ (At(CatCatDog, 0, 11) \/ At(CatCatDog, 0, 4)) =>
          /\ \E c \in Labelled(Cat) : c.sortText = <<"9","9","9","9","9","8">>
          /\ \A k \in DOMAIN defaultCompletions : \E it \in Labelled(k) :
                /\ it.sortText = <<"9","9","9","9","8","9">>
                /\ \A c \in Labelled(Cat) : StrLess(it.sortText, c.sortText)

C7_Witness == At(CatCatDog, 0, 11) /\ Labelled(Cat) # {}

\* C8: no two items of a completion reply carry the same label (stated as
\* claimed).
C8_Deduplicated ==
    Answered =>
       \A a \in BagToSet(ReplyItems) :
           /\ CopiesIn(a, ReplyItems) = 1
           /\ \A b \in BagToSet(ReplyItems) : a.label = b.label => a = b

\* C9: a payload that cannot be decoded gets a ParseError reply when the
\* method is the request textDocument/completion, and one log message and no
\* reply when it is didOpen or didChange, whichever decode step failed
\* (stated as claimed).
C9_DecodeFailure ==
    (URIDecodeFailed(msg) \/ PayloadDecodeFailed(msg, files)) =>
       /\ Len(out) = 1
       /\ IsCompletion(msg) => out[1].type = "error" /\ out[1].code = CodeParseError
       /\ (IsOpen(msg) \/ IsChange(msg)) => out[1].type = "notify"

\* C10: a step changes the store only if it handles a didOpen/didChange whose
\* payload decoded, and then only the record under the message's uri.
C10_Frame ==
    [][ files' # files =>
          /\ Stored(msg')
          /\ DOMAIN files' = DOMAIN files \cup {getURI(msg').uri}
          /\ \A k \in DOMAIN files : k # getURI(msg').uri => files'[k] = files[k] ]_vars

C10_Witness ==
    /\ IsOpen(msg) /\ Stored(msg)
    /\ \E k \in DOMAIN files : k # getURI(msg).uri /\ files[k].content # SentText(msg)

\* the ten method names the switch of Handle recognizes
RecognizedMethods ==
    {"initialize", "initialized", "shutdown", "exit", "workspace/didChangeConfiguration",
     "textDocument/didChange", "textDocument/didOpen", "textDocument/didSave",
     "textDocument/hover", "textDocument/completion"}

\* a completion request whose uri decodes and has no record in store f
NotOpenRequest(m, f) ==
    IsCompletion(m) /\ HasParams(m) /\ ~getURI(m).err /\ getURI(m).uri \notin DOMAIN f

\* C11: a completion for a uri without a record emits exactly one log
\* notification and no reply, leaves the store unchanged and the server alive.
C11_NotOpenRecoverable ==
    [][ NotOpenRequest(msg', files) =>
          /\ Len(out') = 1
          /\ out'[1].type = "notify" /\ out'[1].method = "window/logMessage"
          /\ files' = files
          /\ alive' ]_vars

C11_Witness ==
    /\ NotOpenRequest(msg, files)
    /\ files # EmptyMap
    /\ out = <<log(<<"FILE NOT OPEN">>)>>
    /\ alive

\* C12: a message with an unrecognized method gets exactly one MethodNotFound
\* error whose message contains the method name, no log, and changes nothing.
C12_MethodNotFound ==
    [][ msg'.method \notin RecognizedMethods =>
          /\ Len(out') = 1
          /\ out'[1].type = "error" /\ out'[1].code = CodeMethodNotFound
          /\ \E i \in 1..Len(out'[1].message) : out'[1].message[i] = msg'.method
          /\ files' = files
          /\ alive' ]_vars

C12_Witness ==
    /\ msg.method = "foo/bar"
    /\ files # EmptyMap
    /\ Len(out) = 1 /\ out[1].type = "error"

\* C13: only exit terminates the server; every other message, whatever its
\* payload, leaves it able to handle the next one (stated as claimed).
C13_OnlyExitTerminates == ~alive => msg.method = "exit"

\* C14: a step never removes a uri from the store, and the record of a uri
\* changes only in a step that stores a didOpen/didChange for that uri.
C14_NeverShrinks ==
    [][ \A u \in DOMAIN files :
           /\ u \in DOMAIN files'
           /\ files'[u] # files[u] => Stored(msg') /\ getURI(msg').uri = u ]_vars

C14_Witness ==
    /\ Cardinality(DOMAIN files) = 3
    /\ IsChange(msg) /\ Stored(msg)
    /\ \A u \in DOMAIN files : files[u].content # <<>>

IsPrefix(a, b) == Len(a) <= Len(b) /\ SubSeq(b, 1, Len(a)) = a

\* C15: an answered completion lists exactly the keys of the document's words
\* and of the keyword table except the partial, with or without the partial
\* as prefix; isIncomplete is false; every item has kind 3, insertText equal
\* to its label and insertTextFormat 1.
C15_FullEnumeration ==
    Answered =>
       /\ {it.label : it \in BagToSet(ReplyItems)} =
             ((DOMAIN ReqFile.words) \cup (DOMAIN defaultCompletions)) \ {scan.tocomplete}
       /\ out[2].result.isIncomplete = FALSE
       /\ \A it \in BagToSet(ReplyItems) :
             it.kind = 3 /\ it.insertText = it.label /\ it.insertTextFormat = 1

C15_Witness ==
    /\ Answered
    /\ scan.tocomplete # <<>>
    /\ \E it \in BagToSet(ReplyItems) :
          it.label \in DOMAIN ReqFile.words /\ ~IsPrefix(scan.tocomplete, it.label)
    /\ \E it \in BagToSet(ReplyItems) :
          it.label \in DOMAIN defaultCompletions /\ ~IsPrefix(scan.tocomplete, it.label)

\* C16 as claimed: a record appears in the store only in a step that handles a
\* didOpen for its uri.
C16_CreatedByOpenOnly ==
    [][ \A u \in (DOMAIN files') \ (DOMAIN files) :
           IsOpen(msg') /\ getURI(msg').uri = u ]_vars

\* C16 amended: a record appears in the store only in a step that stores a
\* didOpen or a didChange for its uri, and it holds that message's text.
C16_CreatedByOpenOrChange ==
    [][ \A u \in (DOMAIN files') \ (DOMAIN files) :
           /\ IsOpen(msg') \/ IsChange(msg')
           /\ Stored(msg') /\ getURI(msg').uri = u
           /\ files'[u].content = SentText(msg') ]_vars

C16_Witness ==
    /\ IsChange(msg) /\ Stored(msg)
    /\ DOMAIN files = {getURI(msg).uri}
    /\ getURI(msg).uri = "u1"
    /\ files["u1"].content # <<>>

\* the maximal runs of identifier characters of a text, as index pairs
WordSpans(text) ==
    {sp \in (1..Len(text)) \X (1..Len(text)) :
        /\ sp[1] <= sp[2]
        /\ \A i \in sp[1]..sp[2] : IsWordChar(text[i])
        /\ sp[1] = 1 \/ ~IsWordChar(text[sp[1] - 1])
        /\ sp[2] = Len(text) \/ ~IsWordChar(text[sp[2] + 1])}

WordsIn(text) == {SubSeq(text, sp[1], sp[2]) : sp \in WordSpans(text)}

\* the items of the reply that the keyword table does not account for
DocSourced == ReplyItems (-) keywordItems(scan.tocomplete)

LatestText == latest[getURI(msg).uri]

\* C17: an answered completion for uri u takes the cursor context and the
\* document candidates from the text of the latest stored didOpen/didChange
\* for u: every document-sourced label is a word of that text, and every word
\* of it that is neither a keyword nor the partial is listed.
C17_Freshness ==
    Answered =>
       /\ getURI(msg).uri \in DOMAIN latest
       /\ scan = cursorScan(LatestText, ReqLine, ReqChar)
       /\ \A it \in BagToSet(DocSourced) : it.label \in WordsIn(LatestText)
       /\ \A w \in WordsIn(LatestText) :
             (w \notin DOMAIN defaultCompletions /\ w # scan.tocomplete)
                => \E it \in BagToSet(DocSourced) : it.label = w

C17_Witness ==
    /\ Answered
    /\ BagToSet(DocSourced) # {}
    /\ \E k \in DOMAIN latest :
          /\ k # getURI(msg).uri
          /\ \E w \in WordsIn(latest[k]) :
                w \notin WordsIn(LatestText) /\ w \notin DOMAIN defaultCompletions

\* the request points into an existing line, at or past its end
PastLineEnd ==
    /\ Answered
    /\ ReqLine + 1 \in 1..Len(LinesOf(ReqFile.content))
    /\ ReqChar >= Len(LinesOf(ReqFile.content)[ReqLine + 1])

\* C18: at any offset at or past the end of an existing line the partial is
\* the trailing identifier run of that line (stated as claimed).
C18_PastEndPartial ==
    PastLineEnd => scan.tocomplete = IdentRunEndingAt(CursorLine, Len(CursorLine))

\* C19: the words of a text are the words of the same text followed by one
\* delimiter, a space or a newline (stated as claimed).
C19_FlushAtEnd ==
    \A u \in DOMAIN files :
        /\ files[u].words = getWords(files[u].content \o <<" ">>)
        /\ files[u].words = getWords(files[u].content \o <<"\n">>)

\* a params object that names no uri: no textDocument member, or one without uri
NamesNoURI(m) ==
    /\ m.params.j = "object"
    /\ \/ "textDocument" \notin DOMAIN m.params.obj
       \/ m.params.obj.textDocument.j = "absent"
       \/ /\ m.params.obj.textDocument.j = "object"
          /\ \/ "uri" \notin DOMAIN m.params.obj.textDocument.obj
             \/ m.params.obj.textDocument.obj.uri.j = "absent"

\* the rest of the payload is well formed: a text for didOpen, a first change
\* for didChange, a position for completion
RestDecodes(m) ==
    \/ IsOpen(m) /\ ~unmarshalOpen(m.params).err
    \/ IsChange(m) /\ ~unmarshalChange(m.params).err
                   /\ Len(unmarshalChange(m.params).ContentChanges) > 0
    \/ IsCompletion(m) /\ ~unmarshalPosition(m.params).err

\* C20: a didOpen/didChange that names no uri is stored, without any log or
\* error, as the record of the empty uri; a completion that names no uri is
\* answered from that record once it exists.
C20_EmptyURIRecord ==
    [][ (NamesNoURI(msg') /\ RestDecodes(msg')) =>
          /\ (IsOpen(msg') \/ IsChange(msg')) =>
                /\ out' = <<>>
                /\ "" \in DOMAIN files'
                /\ files'[""].content = SentText(msg')
                /\ \A k \in DOMAIN files : k # "" => files'[k] = files[k]
                /\ DOMAIN files' = DOMAIN files \cup {""}
          /\ (IsCompletion(msg') /\ "" \in DOMAIN files) =>
                /\ Len(out') = 2 /\ out'[2].type = "reply"
                /\ scan' = cursorScan(files[""].content,
                                      unmarshalPosition(msg'.params).Line,
                                      unmarshalPosition(msg'.params).Character)
                /\ {it.label : it \in BagToSet(out'[2].result.items)} =
                      ((DOMAIN files[""].words) \cup (DOMAIN defaultCompletions))
                         \ {scan'.tocomplete} ]_vars

C20_Witness ==
    /\ Answered /\ NamesNoURI(msg)
    /\ "" \in DOMAIN files
    /\ \E it \in BagToSet(ReplyItems) : it.label \notin DOMAIN defaultCompletions
    /\ Cardinality(DOMAIN files) >= 2

====
